---- MODULE Spec2Model ----
(***************************************************************************)
(* OPL DNS plugin for BIND 9: the reputation lookup (opl_check_domain),    *)
(* the answer rewriting (opl_modify_response, parse_ipv4), the response    *)
(* hook (opl_query_respond_any) and the plugin lifecycle                   *)
(* (plugin_register, plugin_destroy).                                      *)
(*                                                                         *)
(* C strings are sequences of one-character strings; a NULL pointer to a   *)
(* context is the id 0.                                                    *)
(***************************************************************************)
EXTENDS Integers, Sequences, FiniteSets, TLC

(* ------------------------------------------------------------------ *)
(* Bounds of the model.                                                *)
(* ------------------------------------------------------------------ *)
MaxThreads == 2
MaxCtx == 2
MaxInst == 2
MaxCalls == 2

(* ------------------------------------------------------------------ *)
(* Program constants.                                                  *)
(* ------------------------------------------------------------------ *)
DEFAULT_API_ENDPOINT_LEN == 46
DEFAULT_BLOCK_PAGE_IP == <<"1","2","7",".","0",".","0",".","1">>
DEFAULT_API_TIMEOUT == 5
DEFAULT_CACHE_TTL == 300
URL_BUF_SIZE == 1024
FORMAT_SUFFIX_LEN == 12
DNS_NAME_MAXTEXT == 1023
INT_MAX == 2147483647

(* ------------------------------------------------------------------ *)
(* C string helpers.                                                   *)
(* ------------------------------------------------------------------ *)
Min(a, b) == IF a < b THEN a ELSE b

\* strstr(haystack, needle) != NULL
strstr(h, n) ==
    \E i \in 0..(Len(h) - Len(n)) : SubSeq(h, i + 1, i + Len(n)) = n

\* snprintf(buf, size, ...) of the text `full`: at most size-1 characters are kept
snprintf(size, full) ==
    SubSeq(full, 1, Min(Len(full), size - 1))

(* ------------------------------------------------------------------ *)
(* json-c values, as opl_check_domain reads them.                      *)
(*   a member is absent, JSON null, or a value with its string form    *)
(*   an entry of the blocklist array is JSON null, a non-object, or an *)
(*   object with the members url, employer and reason                  *)
(* ------------------------------------------------------------------ *)
Absent == [tag |-> "absent", s |-> <<>>]
JNull == [tag |-> "null", s |-> <<>>]
JStr(s) == [tag |-> "str", s |-> s]

\* json_object_object_get_ex(entry, key, &obj): whether the key is there
json_object_object_get_ex(entry, key) ==
    entry.kind = "object" /\ entry[key].tag # "absent"

\* json_object_get_string(obj) != NULL (NULL for a JSON null)
json_has_string(member) == member.tag = "str"

NoInfo == <<"(null)">>

\* ComposeInfo with the buffer two bytes short (info_len += 2): the text is cut.
ComposeInfo_short_buffer(entry) ==
    LET employer_str == IF entry.employer.tag = "str" THEN entry.employer.s ELSE <<>>
        reason_str == IF entry.reason.tag = "str" THEN entry.reason.s ELSE <<>>
        info_len == Len(employer_str) + Len(reason_str) + 2
    IN snprintf(info_len, employer_str \o <<":", " ">> \o reason_str)

\* The info string of one matching entry (lines 205-218).
ComposeInfo(entry) ==
    LET employer_ok == json_object_object_get_ex(entry, "employer")
                       /\ json_has_string(entry.employer)
        reason_ok == json_object_object_get_ex(entry, "reason")
                     /\ json_has_string(entry.reason)
        employer_str == IF employer_ok THEN entry.employer.s ELSE <<>>
        reason_str == IF reason_ok THEN entry.reason.s ELSE <<>>
        info_len == Len(employer_str) + Len(reason_str) + 4
    IN snprintf(info_len, employer_str \o <<":", " ">> \o reason_str)

\* Whether the loop body at index i matches (lines 196-201).
EntryMatches(entry, domain) ==
    /\ entry.kind # "null"
    /\ json_object_object_get_ex(entry, "url")
    /\ json_has_string(entry.url)
    /\ strstr(entry.url.s, domain)

\* The for loop over the blocklist array from index i (lines 195-225):
\* the index of the first matching entry, 0 when none matches.
RECURSIVE ScanFrom(_, _, _)
ScanFrom(items, domain, i) ==
    IF i > Len(items) THEN 0
    ELSE IF EntryMatches(items[i], domain) THEN i
    ELSE ScanFrom(items, domain, i + 1)

\* Lines 192-230 on a parsed root: the result code and *dispute_info.
\* want_info: dispute_info != NULL; info_alloc: malloc(info_len) succeeded.
ScanBlocklist(root, domain, want_info, info_alloc) ==
    LET hit == IF root.kind = "array" THEN ScanFrom(root.items, domain, 1) ELSE 0
    IN IF hit = 0
       THEN [result |-> "ISC_R_NOTFOUND", info |-> NoInfo]
       ELSE [result |-> "ISC_R_SUCCESS",
             info |-> IF want_info /\ info_alloc
                      THEN ComposeInfo(root.items[hit])
                      ELSE NoInfo]

(* ------------------------------------------------------------------ *)
(* parse_ipv4: sscanf(ip_str, "%u.%u.%u.%u", ...) and the range check. *)
(* ------------------------------------------------------------------ *)
Digits == {"0", "1", "2", "3", "4", "5", "6", "7", "8", "9"}
DigitVal(c) ==
    CASE c = "0" -> 0 [] c = "1" -> 1 [] c = "2" -> 2 [] c = "3" -> 3
      [] c = "4" -> 4 [] c = "5" -> 5 [] c = "6" -> 6 [] c = "7" -> 7
      [] c = "8" -> 8 [] c = "9" -> 9

\* first index >= i that is not white space
RECURSIVE SkipSpace(_, _)
SkipSpace(s, i) ==
    IF i <= Len(s) /\ s[i] = " " THEN SkipSpace(s, i + 1) ELSE i

\* first index >= i that is not a digit
RECURSIVE DigitsEnd(_, _)
DigitsEnd(s, i) ==
    IF i <= Len(s) /\ s[i] \in Digits THEN DigitsEnd(s, i + 1) ELSE i

\* value of the digits s[from..to-1]; the strings the model reads have at most
\* nine digits in a row, so the value fits an unsigned int
RECURSIVE NumVal(_, _, _, _)
NumVal(s, from, to, acc) ==
    IF from >= to THEN acc
    ELSE NumVal(s, from + 1, to, acc * 10 + DigitVal(s[from]))

\* -v as an unsigned int: 0 for 0, else 2^32 - v, which is above 255 for every
\* v of at most nine digits; INT_MAX stands for it
NegateUnsigned(v) == IF v = 0 THEN 0 ELSE INT_MAX

\* One %u conversion whose digits start at k (after white space and sign).
ScanDigits(s, k, negative) ==
    IF DigitsEnd(s, k) = k
    THEN [ok |-> FALSE, val |-> 0, next |-> k]
    ELSE [ok |-> TRUE,
          val |-> IF negative THEN NegateUnsigned(NumVal(s, k, DigitsEnd(s, k), 0))
                  ELSE NumVal(s, k, DigitsEnd(s, k), 0),
          next |-> DigitsEnd(s, k)]

\* One %u conversion at index j, white space already skipped: an optional sign,
\* then at least one digit; a '-' negates the value as an unsigned int.
ScanSigned(s, j) ==
    IF j <= Len(s) /\ s[j] \in {"+", "-"}
    THEN ScanDigits(s, j + 1, s[j] = "-")
    ELSE ScanDigits(s, j, FALSE)

\* One %u conversion at index i: leading white space is skipped.
ScanUnsigned(s, i) == ScanSigned(s, SkipSpace(s, i))

\* A literal '.' of the format at index i.
ScanDot(s, i) == i <= Len(s) /\ s[i] = "."

\* The conversions of "%u.%u.%u.%u" from index i on, `got` being those made so
\* far: scanning stops at the first conversion or literal that does not match,
\* and after the fourth conversion, whatever follows it.
RECURSIVE ScanFields(_, _, _)
ScanFields(s, i, got) ==
    LET u == ScanUnsigned(s, i)
    IN IF ~u.ok THEN got
       ELSE IF Len(got) = 3 THEN Append(got, u.val)
       ELSE IF ~ScanDot(s, u.next) THEN Append(got, u.val)
       ELSE ScanFields(s, u.next + 1, Append(got, u.val))

\* sscanf(ip_str, "%u.%u.%u.%u", &a, &b, &c, &d): the values converted, in order;
\* their number is the return value.
sscanf_quad(s) == ScanFields(s, 1, <<>>)

NoBytes == <<>>

\* parse_ipv4(ip_str, ip_bytes): the return value and ip_bytes.
parse_ipv4(ip_str) ==
    LET v == sscanf_quad(ip_str)
    IN IF Len(v) # 4
       THEN [rc |-> -1, ip_bytes |-> NoBytes]
       ELSE IF v[1] > 255 \/ v[2] > 255 \/ v[3] > 255 \/ v[4] > 255
       THEN [rc |-> -1, ip_bytes |-> NoBytes]
       ELSE [rc |-> 0, ip_bytes |-> v]

(* ------------------------------------------------------------------ *)
(* Configuration and contexts (opl_config_t, opl_context_t).           *)
(* api_endpoint is kept as its length: only the length of the URL      *)
(* decides anything in the plugin.                                     *)
(* ------------------------------------------------------------------ *)
IP_BAD == <<"9","9","9",".","1",".","1",".","1">>
IP_TRAIL == <<"1",".","2",".","3",".","4","x">>

\* the contents opl_plugin_init gives a context (lines 83-98)
DefaultConfig ==
    [api_endpoint_len |-> DEFAULT_API_ENDPOINT_LEN,
     block_page_ip |-> DEFAULT_BLOCK_PAGE_IP,
     api_timeout |-> DEFAULT_API_TIMEOUT,
     cache_ttl |-> DEFAULT_CACHE_TTL,
     enabled |-> 1]

\* the longest endpoint whose URL still fits url[1024], and the next longer one
LongestEndpoint == URL_BUF_SIZE - FORMAT_SUFFIX_LEN - 1

\* values the owner of a context gives its opl_config_t: the defaults, and the
\* defaults with one field changed
ConfigValues ==
    {DefaultConfig,
     [DefaultConfig EXCEPT !.enabled = 0],
     [DefaultConfig EXCEPT !.api_endpoint_len = LongestEndpoint + 1],
     [DefaultConfig EXCEPT !.block_page_ip = IP_BAD]}

(* ------------------------------------------------------------------ *)
(* Names, messages and reputation API responses the model draws from.  *)
(* ------------------------------------------------------------------ *)
N_ab == <<"a", ".", "b">>
N_Ab == <<"A", ".", "b">>
QNames == {N_ab, N_Ab}

GenuineRdata == <<93, 184, 216, 34>>

GenuineAnswer(qname, qclass) ==
    <<[name |-> qname, type |-> "A", rdclass |-> qclass, ttl |-> 60,
       rdata |-> GenuineRdata]>>

\* a response message with one question and the resolver's genuine answer
Msg(qname, qclass) ==
    [question |-> <<[name |-> qname, rdclass |-> qclass]>>,
     answer |-> GenuineAnswer(qname, qclass)]

\* a response message whose question section is empty
MsgNoQuestion == [question |-> <<>>, answer |-> <<>>]

HookMessages == {Msg(n, "IN") : n \in QNames} \cup {MsgNoQuestion}

U_ab == <<"/", "a", ".", "b", "/">>
U_abdot == <<"/", "a", ".", "b", ".", "/">>
U_c == <<"/", "c">>
S_e == <<"e">>
S_f == <<"f", "f">>
S_r == <<"r", "r">>

Entry(url, employer, reason) ==
    [kind |-> "object", url |-> url, employer |-> employer, reason |-> reason]
EntryNull == [kind |-> "null", url |-> Absent, employer |-> Absent, reason |-> Absent]
EntryNonObject ==
    [kind |-> "nonobject", url |-> Absent, employer |-> Absent, reason |-> Absent]

\* A response body, as json_tokener_parse reads it:
\*   "empty"       no byte was received (the write callback never ran)
\*   "invalid"     text that is not JSON
\*   "nonobject"   JSON, but not an object
\*   "noblocklist" an object without the member blocklist
\*   "notarray"    an object whose blocklist is not an array
\*   "array"       an object whose blocklist is the array items
Body(kind) == [kind |-> kind, items |-> <<>>]
Blocklist(items) == [kind |-> "array", items |-> items]

B_ab == Blocklist(<<Entry(JStr(U_ab), JStr(S_e), JStr(S_r))>>)
B_abdot == Blocklist(<<Entry(JStr(U_abdot), JStr(S_e), Absent)>>)

\* the bodies the hook's requests are answered with
HookBodies == {Body("empty"), Body("invalid"), Body("noblocklist"), B_abdot}

\* the bodies direct calls of opl_check_domain are answered with
CheckBodies ==
    HookBodies \cup
    {B_ab, Body("nonobject"), Body("notarray"), Blocklist(<<>>),
     Blocklist(<<EntryNull, EntryNonObject, Entry(Absent, JStr(S_e), JStr(S_r))>>),
     Blocklist(<<Entry(JNull, JStr(S_e), JStr(S_r)), Entry(JStr(U_c), Absent, Absent)>>),
     Blocklist(<<Entry(JStr(U_c), JStr(S_f), JNull), Entry(JStr(U_ab), JNull, JStr(S_r)),
                 Entry(JStr(U_abdot), JStr(S_e), JStr(S_r))>>),
     Blocklist(<<EntryNull, Entry(JStr(U_abdot), Absent, JStr(S_r)),
                 Entry(JStr(U_ab), JStr(S_f), JStr(S_f))>>)}

\* The outcome of curl_easy_perform: the CURLcode, and for CURLE_OK the HTTP
\* status and the body the write callback collected.
NetError(res) == [res |-> res, status |-> 0, body |-> Body("empty")]
NetOutcomes(errors, bodies) ==
    {NetError(e) : e \in errors}
    \cup [res : {"CURLE_OK"}, status : {200, 500}, body : bodies]
HookNet == NetOutcomes({"CURLE_OPERATION_TIMEDOUT"}, HookBodies)
CheckNet == NetOutcomes({"CURLE_OPERATION_TIMEDOUT", "CURLE_WRITE_ERROR"}, CheckBodies)
NoNet == NetError("none")

\* json_tokener_parse(response.data): the root object, "invalid" for NULL.
\* response.data is malloc(1) and is written only by the write callback; with an
\* empty body nothing was written and the parser reads uninitialized memory, so
\* any of `garbage` may come out.
json_tokener_parse(body, garbage) ==
    IF body.kind = "empty" THEN garbage ELSE {body}

(* ------------------------------------------------------------------ *)
(* opl_check_domain, in the two halves curl_easy_perform separates.    *)
(* ------------------------------------------------------------------ *)
\* opl_check_domain_begin without the test of ctx->config.enabled.
opl_check_domain_begin_ignoring_enabled(ctx, cfg, domain_null, alloc) ==
    IF ctx = 0 \/ domain_null THEN "ISC_R_INVALIDARG"
    ELSE IF alloc = "malloc" THEN "ISC_R_NOMEMORY"
    ELSE IF alloc = "curl" THEN "ISC_R_FAILURE"
    ELSE IF cfg.api_endpoint_len + FORMAT_SUFFIX_LEN >= URL_BUF_SIZE THEN "ISC_R_FAILURE"
    ELSE "perform"

\* Lines 143-167: an early return code, or "perform" when the request is issued.
\* ctx: context id, 0 for NULL; cfg: ctx->config as read; domain_null: domain == NULL
\* alloc: "malloc" when malloc(1) fails, "curl" when curl_easy_init fails, else "ok"
opl_check_domain_begin(ctx, cfg, domain_null, alloc) ==
    IF ctx = 0 \/ domain_null \/ cfg.enabled = 0 THEN "ISC_R_INVALIDARG"
    ELSE IF alloc = "malloc" THEN "ISC_R_NOMEMORY"
    ELSE IF alloc = "curl" THEN "ISC_R_FAILURE"
    ELSE IF cfg.api_endpoint_len + FORMAT_SUFFIX_LEN >= URL_BUF_SIZE THEN "ISC_R_FAILURE"
    ELSE "perform"

\* Lines 179-230: the return code and *dispute_info, given the outcome of the
\* transfer and the root the parser returned.
opl_check_domain_end(net, root, domain, want_info, info_alloc) ==
    IF net.res # "CURLE_OK" THEN [result |-> "ISC_R_FAILURE", info |-> NoInfo]
    ELSE IF root.kind = "invalid" THEN [result |-> "ISC_R_FAILURE", info |-> NoInfo]
    ELSE ScanBlocklist(root, domain, want_info, info_alloc)

(* ------------------------------------------------------------------ *)
(* opl_modify_response.                                                *)
(* ------------------------------------------------------------------ *)
\* The return code and the message afterwards. The rdata is set up in a local
\* variable and nothing is added to the message (lines 294-334).
opl_modify_response(ctx, cfg, message_null, message, domain_null, temp_ok) ==
    IF ctx = 0 \/ message_null \/ domain_null
    THEN [result |-> "ISC_R_INVALIDARG", message |-> message]
    ELSE IF parse_ipv4(cfg.block_page_ip).rc # 0
    THEN [result |-> "ISC_R_FAILURE", message |-> message]
    ELSE IF message.question = <<>>
    THEN [result |-> "ISC_R_FAILURE", message |-> message]
    ELSE IF ~temp_ok
    THEN [result |-> "ISC_R_NOMEMORY", message |-> message]
    ELSE [result |-> "ISC_R_SUCCESS", message |-> message]

(* ------------------------------------------------------------------ *)
(* The hook opl_query_respond_any, in the same two halves.             *)
(* ------------------------------------------------------------------ *)
\* dns_name_to_string: dns_name_totext(name, false, &b) writes the name with its
\* final dot; ISC_R_NOSPACE when no room is left for the terminator.
dns_name_to_string(name, buflen) ==
    LET text == name \o <<".">>
    IN IF Len(text) >= buflen
       THEN [result |-> "ISC_R_NOSPACE", text |-> <<>>]
       ELSE [result |-> "ISC_R_SUCCESS", text |-> text]

NoDomain == <<"(none)">>
AllocOutcomes == {"ok", "malloc", "curl"}

\* Lines 61-94 and opl_check_domain up to curl_easy_perform.
\* pctx: plugin_ctx as read; cfg: plugin_ctx->config as read.
HookBegin(pctx, cfg, message, alloc) ==
    LET early == [pc |-> "returned", domain |-> NoDomain, began |-> "none"]
        name == dns_name_to_string(message.question[1].name, DNS_NAME_MAXTEXT + 1)
        began == opl_check_domain_begin(pctx, cfg, FALSE, alloc)
    IN IF pctx = 0 \/ cfg.enabled = 0 THEN early
       ELSE IF message.question = <<>> THEN early
       ELSE IF name.result # "ISC_R_SUCCESS" THEN early
       ELSE [pc |-> IF began = "perform" THEN "perform" ELSE "returned",
             domain |-> name.text, began |-> began]

\* Lines 96-115, given the result of opl_check_domain.
\* pctx, cfg: plugin_ctx and its config as read at line 102.
HookFinish(pctx, cfg, message, checked, temp_ok) ==
    IF checked.result = "ISC_R_SUCCESS"
    THEN LET m == opl_modify_response(pctx, cfg, FALSE, message, FALSE, temp_ok)
         IN [modify_called |-> TRUE, modify_result |-> m.result,
             response |-> m.message, resultp |-> "ISC_R_SUCCESS",
             logged |-> checked.info]
    ELSE [modify_called |-> FALSE, modify_result |-> "none",
          response |-> message, resultp |-> "unset", logged |-> NoInfo]

(* ------------------------------------------------------------------ *)
(* State.                                                              *)
(* ------------------------------------------------------------------ *)
VARIABLES
    heap,               \* the contexts isc_mem_get has handed out: state and config
    plugin_ctx,         \* static opl_context_t *plugin_ctx (0: NULL)
    curl_initialized,   \* static int curl_initialized
    inst,               \* per plugin instance of the host: *instp and whether registered
    thr,                \* per worker thread: where its hook invocation stands
    reqs,               \* per domain string: requests issued since the cache TTL last ran out
    fn                  \* the last direct call of the public API and what it returned

vars == <<heap, plugin_ctx, curl_initialized, inst, thr, reqs, fn>>

Threads == 1..MaxThreads
CtxIds == 1..MaxCtx
Insts == 1..MaxInst

HookDomains == {dns_name_to_string(n, DNS_NAME_MAXTEXT + 1).text : n \in QNames}

Unallocated == [state |-> "unalloc", config |-> DefaultConfig]

IdleThread ==
    [pc |-> "idle", message |-> MsgNoQuestion, domain |-> NoDomain, began |-> "none",
     net |-> NoNet, check_result |-> "none", modify_called |-> FALSE,
     modify_result |-> "none", response |-> MsgNoQuestion, resultp |-> "unset",
     logged |-> NoInfo, ret |-> "none", uaf |-> FALSE]

NoCall == [op |-> "none"]

\* The module is loaded and nothing is registered.
InitLoaded ==
    /\ heap = [c \in CtxIds |-> Unallocated]
    /\ plugin_ctx = 0
    /\ curl_initialized = 0
    /\ inst = [i \in Insts |-> [state |-> "none", ptr |-> 0]]
    /\ thr = [t \in Threads |-> IdleThread]
    /\ reqs = [d \in HookDomains |-> 0]
    /\ fn = NoCall

\* plugin_register has succeeded once: the state the resolver serves queries in.
InitRegistered ==
    /\ heap = [c \in CtxIds |-> IF c = 1 THEN [state |-> "live", config |-> DefaultConfig]
                                 ELSE Unallocated]
    /\ plugin_ctx = 1
    /\ curl_initialized = 1
    /\ inst = [i \in Insts |-> IF i = 1 THEN [state |-> "registered", ptr |-> 1]
                                ELSE [state |-> "none", ptr |-> 0]]
    /\ thr = [t \in Threads |-> IdleThread]
    /\ reqs = [d \in HookDomains |-> 0]
    /\ fn = NoCall

\* What a read of ctx->config yields: the config of a live context, anything
\* for a context that has been freed. Nothing is read through NULL.
ReadConfig(c, values) ==
    IF c = 0 THEN {DefaultConfig}
    ELSE IF heap[c].state = "live" THEN {heap[c].config}
    ELSE values

Dangling(c) == c # 0 /\ heap[c].state # "live"

\* What the parser may return for uninitialized memory.
GarbageRoots(bodies) == {Body("invalid")} \cup (bodies \ {Body("empty")})

(* ------------------------------------------------------------------ *)
(* Actions.                                                            *)
(* ------------------------------------------------------------------ *)
\* The owner of a live context writes its config (opl_config_t is public).
Configure(c) ==
    /\ heap[c].state = "live"
    /\ \E cfg \in ConfigValues :
          /\ cfg # heap[c].config
          /\ heap' = [heap EXCEPT ![c].config = cfg]
    /\ UNCHANGED <<plugin_ctx, curl_initialized, inst, thr, reqs, fn>>

\* A worker thread enters opl_query_respond_any for an outgoing response and
\* runs it up to an early return or up to the request of opl_check_domain.
HookEnter(t) ==
    /\ thr[t].pc \in {"idle", "returned"}
    /\ \E message \in HookMessages, cfg \in ReadConfig(plugin_ctx, ConfigValues),
          alloc \in AllocOutcomes :
          \E b \in {HookBegin(plugin_ctx, cfg, message, alloc)} :
             /\ b.pc = "perform" => reqs[b.domain] < MaxCalls
             /\ thr' = [thr EXCEPT ![t] =
                    [IdleThread EXCEPT !.pc = b.pc, !.message = message,
                                       !.response = message,
                                       !.domain = b.domain, !.began = b.began,
                                       !.check_result =
                                           IF b.began = "perform" THEN "none" ELSE b.began,
                                       !.ret = IF b.pc = "returned"
                                               THEN "NS_HOOK_CONTINUE" ELSE "none",
                                       !.uaf = Dangling(plugin_ctx)]]
             /\ reqs' = IF b.pc = "perform"
                        THEN [reqs EXCEPT ![b.domain] = @ + 1]
                        ELSE reqs
    /\ UNCHANGED <<heap, plugin_ctx, curl_initialized, inst, fn>>

\* curl_easy_perform returns in a worker thread, which runs the rest of
\* opl_check_domain and of the hook.
HookComplete(t) ==
    /\ thr[t].pc = "perform"
    /\ \E net \in HookNet, info_alloc \in BOOLEAN, temp_ok \in BOOLEAN,
          cfg \in ReadConfig(plugin_ctx, ConfigValues) :
          \E root \in json_tokener_parse(net.body, GarbageRoots(HookBodies)) :
          \E checked \in {opl_check_domain_end(net, root, thr[t].domain, TRUE, info_alloc)} :
          \E fin \in {HookFinish(plugin_ctx, cfg, thr[t].message, checked, temp_ok)} :
             thr' = [thr EXCEPT ![t] =
                 [@ EXCEPT !.pc = "returned", !.net = net,
                           !.check_result = checked.result,
                           !.modify_called = fin.modify_called,
                           !.modify_result = fin.modify_result,
                           !.response = fin.response,
                           !.resultp = fin.resultp,
                           !.logged = fin.logged,
                           !.ret = "NS_HOOK_CONTINUE",
                           !.uaf = @ \/ (fin.modify_called /\ Dangling(plugin_ctx))]]
    /\ UNCHANGED <<heap, plugin_ctx, curl_initialized, inst, reqs, fn>>

\* cache_ttl seconds have passed since the requests counted in reqs.
TtlElapse ==
    /\ \E d \in HookDomains : reqs[d] > 0
    /\ reqs' = [d \in HookDomains |-> 0]
    /\ UNCHANGED <<heap, plugin_ctx, curl_initialized, inst, thr, fn>>

(* ------------------------------------------------------------------ *)
(* Plugin lifecycle (plugin_register, plugin_destroy).                 *)
(* ------------------------------------------------------------------ *)
FreeCtxIds == {c \in CtxIds : heap[c].state = "unalloc"}

\* the context isc_mem_get hands out next
NewCtx == CHOOSE c \in FreeCtxIds : \A d \in FreeCtxIds : c <= d

\* opl_plugin_init(&ctx, mctx, NULL) succeeding: the heap afterwards
opl_plugin_init(h, c) ==
    [h EXCEPT ![c] = [state |-> "live", config |-> DefaultConfig]]

\* opl_plugin_destroy(&ctx): the heap afterwards (the pointer is set to NULL by
\* the caller's assignment below)
opl_plugin_destroy(h, c) ==
    IF c = 0 THEN h ELSE [h EXCEPT ![c] = [state |-> "freed", config |-> DefaultConfig]]

RegisterOutcomes == {"init_failed", "hook_add_failed", "ok"}

\* The host loads instance i of the plugin.
plugin_register(i) ==
    /\ inst[i].state = "none"
    /\ \E outcome \in RegisterOutcomes :
          /\ outcome # "init_failed" => FreeCtxIds # {}
          /\ curl_initialized' = 1
          /\ heap' = IF outcome = "init_failed" THEN heap
                     ELSE IF outcome = "hook_add_failed"
                     THEN opl_plugin_destroy(opl_plugin_init(heap, NewCtx), NewCtx)
                     ELSE opl_plugin_init(heap, NewCtx)
          /\ plugin_ctx' = IF outcome = "init_failed" THEN plugin_ctx
                           ELSE IF outcome = "hook_add_failed" THEN 0
                           ELSE NewCtx
          /\ inst' = IF outcome = "ok"
                     THEN [inst EXCEPT ![i] = [state |-> "registered", ptr |-> NewCtx]]
                     ELSE inst
    /\ UNCHANGED <<thr, reqs, fn>>

\* The host unloads instance i: plugin_destroy(&inst).
plugin_destroy(i) ==
    /\ inst[i].state = "registered"
    /\ heap' = opl_plugin_destroy(heap, inst[i].ptr)
    /\ inst' = [inst EXCEPT ![i] = [state |-> "destroyed", ptr |-> 0]]
    /\ curl_initialized' = 0
    /\ UNCHANGED <<plugin_ctx, thr, reqs, fn>>

(* ------------------------------------------------------------------ *)
(* Direct calls of the public API by a single caller, each run to its  *)
(* return; the context passed is the caller's own (or NULL).           *)
(* ------------------------------------------------------------------ *)
NullStr == <<"(NULL)">>
D_abdot == <<"a", ".", "b", ".">>
D_c == <<"c">>
CheckDomains == {N_ab, N_Ab, D_abdot, D_c, <<>>}

CheckConfigs ==
    {DefaultConfig,
     [DefaultConfig EXCEPT !.enabled = 0],
     [DefaultConfig EXCEPT !.api_endpoint_len = LongestEndpoint],
     [DefaultConfig EXCEPT !.api_endpoint_len = LongestEndpoint + 1]}

\* opl_check_domain(ctx, domain, dispute_info)
CallCheck ==
    /\ fn.op = "none"
    /\ \E ctx \in {0, 1}, cfg \in CheckConfigs, domain \in CheckDomains \cup {NullStr},
             want_info \in BOOLEAN, alloc \in AllocOutcomes, net \in CheckNet,
             info_alloc \in BOOLEAN :
          \E root \in json_tokener_parse(net.body, GarbageRoots(CheckBodies)) :
          \E began \in {opl_check_domain_begin(ctx, cfg, domain = NullStr, alloc)} :
          \E ended \in {IF began = "perform"
                        THEN opl_check_domain_end(net, root, domain, want_info, info_alloc)
                        ELSE [result |-> began, info |-> NoInfo]} :
             /\ fn' = [op |-> "check", ctx |-> ctx, cfg |-> cfg, domain |-> domain,
                       want_info |-> want_info,
                       requested |-> began = "perform",
                       net |-> IF began = "perform" THEN net ELSE NoNet,
                       info_alloc |-> began = "perform" /\ info_alloc,
                       result |-> ended.result, info |-> ended.info]
             /\ UNCHANGED <<heap, plugin_ctx, curl_initialized, inst, thr, reqs>>

S_1234 == <<"1", ".", "2", ".", "3", ".", "4">>

IpStrings ==
    {DEFAULT_BLOCK_PAGE_IP, IP_BAD, IP_TRAIL, S_1234,
     <<"2","0","3",".","0",".","1","1","3",".","1">>,
     <<"2","5","5",".","2","5","5",".","2","5","5",".","2","5","5">>,
     <<"0",".","0",".","0",".","0">>,
     <<"1",".","2",".","3">>,
     <<"1",".","2",".","3",".">>,
     S_1234 \o <<".", "5">>,
     <<" ">> \o S_1234,
     <<"+">> \o S_1234,
     <<"-", "0", ".", "2", ".", "3", ".", "4">>,
     <<"-", "1", ".", "2", ".", "3", ".", "4">>,
     <<"1", ".", " ", "2", ".", "3", ".", "4">>,
     <<"1", " ", ".", "2", ".", "3", ".", "4">>,
     <<"1", ".", ".", "2", ".", "3">>,
     <<"1", ".", "2", ".", "3", ".", "2", "5", "6">>,
     <<"2", "5", "6", ".", "0", ".", "0", ".", "1">>,
     <<"x">>, <<>>}

ModifyMessages == {Msg(N_ab, "IN"), Msg(N_ab, "CH"), MsgNoQuestion}

\* opl_modify_response(ctx, message, domain)
CallModify ==
    /\ fn.op = "none"
    /\ \E ctx \in {0, 1}, ip \in IpStrings, message \in ModifyMessages,
             message_null \in BOOLEAN, domain_null \in BOOLEAN, temp_ok \in BOOLEAN :
          \E cfg \in {[DefaultConfig EXCEPT !.block_page_ip = ip]} :
          \E r \in {opl_modify_response(ctx, cfg, message_null, message, domain_null, temp_ok)} :
             /\ fn' = [op |-> "modify", ctx |-> ctx, cfg |-> cfg, message |-> message,
                       message_null |-> message_null, domain_null |-> domain_null,
                       parsed |-> ~(ctx = 0 \/ message_null \/ domain_null),
                       parse_rc |-> parse_ipv4(ip).rc,
                       ip_bytes |-> parse_ipv4(ip).ip_bytes,
                       result |-> r.result, response |-> r.message]
             /\ UNCHANGED <<heap, plugin_ctx, curl_initialized, inst, thr, reqs>>

\* opl_query_respond_any(arg, cbdata, resultp), run to its return
CallHook ==
    /\ fn.op = "none"
    /\ \E message \in HookMessages, cfg \in ReadConfig(plugin_ctx, ConfigValues),
             alloc \in AllocOutcomes, net \in HookNet, info_alloc \in BOOLEAN,
             temp_ok \in BOOLEAN :
          \E root \in json_tokener_parse(net.body, GarbageRoots(HookBodies)) :
          \E b \in {HookBegin(plugin_ctx, cfg, message, alloc)} :
          \E checked \in {IF b.began = "perform"
                          THEN opl_check_domain_end(net, root, b.domain, TRUE, info_alloc)
                          ELSE [result |-> b.began, info |-> NoInfo]} :
          \E fin \in {HookFinish(plugin_ctx, cfg, message, checked, temp_ok)} :
             /\ fn' = [op |-> "hook", cfg |-> cfg, message |-> message,
                       domain |-> b.domain, began |-> b.began,
                       requested |-> b.began = "perform",
                       net |-> IF b.began = "perform" THEN net ELSE NoNet,
                       check_result |-> checked.result,
                       modify_called |-> fin.modify_called,
                       response |-> fin.response, resultp |-> fin.resultp,
                       ret |-> "NS_HOOK_CONTINUE"]
             /\ UNCHANGED <<heap, plugin_ctx, curl_initialized, inst, thr, reqs>>

\* The caller has taken the result of its last call.
CallReturn ==
    /\ fn.op # "none"
    /\ fn' = NoCall
    /\ UNCHANGED <<heap, plugin_ctx, curl_initialized, inst, thr, reqs>>

(* ------------------------------------------------------------------ *)
(* Specifications.                                                     *)
(* ------------------------------------------------------------------ *)
\* The resolver serving queries with the plugin registered.
Next ==
    \/ \E c \in CtxIds : Configure(c)
    \/ \E t \in Threads : HookEnter(t)
    \/ \E t \in Threads : HookComplete(t)
    \/ TtlElapse

Spec == InitRegistered /\ [][Next]_vars

\* The host loading and unloading plugin instances while one worker thread
\* answers queries.
NextLife ==
    \/ \E i \in Insts : plugin_register(i)
    \/ \E i \in Insts : plugin_destroy(i)
    \/ HookEnter(1)
    \/ HookComplete(1)
    \/ TtlElapse

SpecLife == InitLoaded /\ [][NextLife]_vars

\* A single caller of the public functions and of the hook, one call at a time.
NextFn ==
    \/ \E c \in CtxIds : Configure(c)
    \/ CallCheck
    \/ CallModify
    \/ CallHook
    \/ CallReturn

SpecFn == InitRegistered /\ [][NextFn]_vars

(* ------------------------------------------------------------------ *)
(* Vocabulary of the claims.                                           *)
(* ------------------------------------------------------------------ *)
POLICY_TTL == 300

Lower(c) == IF c = "A" THEN "a" ELSE IF c = "B" THEN "b" ELSE c
StripDot(s) == IF Len(s) > 0 /\ s[Len(s)] = "." THEN SubSeq(s, 1, Len(s) - 1) ELSE s
\* a domain lowercased and without its trailing dot
Normalize(s) == [i \in 1..Len(StripDot(s)) |-> Lower(StripDot(s)[i])]

RECURSIVE SumReqs(_)
SumReqs(S) ==
    IF S = {} THEN 0
    ELSE LET d == CHOOSE x \in S : TRUE IN reqs[d] + SumReqs(S \ {d})

\* requests issued for a domain, whatever its spelling, since the TTL last ran out
RequestsFor(D) == SumReqs({d \in HookDomains : Normalize(d) = D})

\* threads whose request for a domain is in flight
InFlight(D) == {t \in Threads : thr[t].pc = "perform" /\ Normalize(thr[t].domain) = D}

HookNormalized == {Normalize(d) : d \in HookDomains}

\* the lookup of thread t's last hook invocation failed
LookupFailed(t) ==
    \/ thr[t].began \in {"ISC_R_INVALIDARG", "ISC_R_NOMEMORY", "ISC_R_FAILURE"}
    \/ /\ thr[t].began = "perform"
       /\ thr[t].pc = "returned"
       /\ \/ thr[t].net.res # "CURLE_OK"
          \/ thr[t].net.body.kind \in {"invalid", "empty"}

\* the hook left everything as it found it
NoChange(t) ==
    /\ ~thr[t].modify_called
    /\ thr[t].resultp = "unset"
    /\ thr[t].response = thr[t].message
    /\ thr[t].ret = "NS_HOOK_CONTINUE"

\* the record the answer section is to be replaced with
SynthesizedAnswer(message) ==
    <<[name |-> message.question[1].name, type |-> "A", rdclass |-> "IN",
       ttl |-> POLICY_TTL, rdata |-> parse_ipv4(DEFAULT_BLOCK_PAGE_IP).ip_bytes]>>

\* n occurs in h
Contains(h, n) ==
    \E i \in 1..(Len(h) + 1) : \E j \in (i - 1)..Len(h) : SubSeq(h, i, j) = n

\* the indexes of the blocklist entries whose url string contains the domain
Matching(body, domain) ==
    {i \in 1..Len(body.items) :
        /\ body.items[i].kind = "object"
        /\ body.items[i].url.tag = "str"
        /\ Contains(body.items[i].url.s, domain)}

FirstMatching(body, domain) ==
    CHOOSE i \in Matching(body, domain) : \A j \in Matching(body, domain) : i <= j

FieldText(member) == IF member.tag = "str" THEN member.s ELSE <<>>

\* "<employer>: <reason>" of an entry
Detail(entry) == FieldText(entry.employer) \o <<":", " ">> \o FieldText(entry.reason)

\* the last direct call of opl_check_domain fetched and parsed a response
Parsed ==
    /\ fn.op = "check"
    /\ fn.requested
    /\ fn.net.res = "CURLE_OK"
    /\ fn.net.body.kind \notin {"empty", "invalid"}

IsOctet(t) ==
    /\ Len(t) \in 1..3
    /\ \A i \in 1..Len(t) : t[i] \in Digits
    /\ NumVal(t, 1, Len(t) + 1, 0) <= 255

\* exactly four octets 0-255 separated by dots, and nothing else
StrictDottedQuad(s) ==
    \E i \in 1..Len(s), j \in 1..Len(s), k \in 1..Len(s) :
        /\ i < j /\ j < k
        /\ s[i] = "." /\ s[j] = "." /\ s[k] = "."
        /\ IsOctet(SubSeq(s, 1, i - 1))
        /\ IsOctet(SubSeq(s, i + 1, j - 1))
        /\ IsOctet(SubSeq(s, j + 1, k - 1))
        /\ IsOctet(SubSeq(s, k + 1, Len(s)))

(* ------------------------------------------------------------------ *)
(* Claims.                                                             *)
(* ------------------------------------------------------------------ *)

\* C1: whenever the lookup of a hook invocation fails (invalid argument,
\* allocation failure, over-long URL, transport error or timeout, a body that
\* does not parse), the hook does not call opl_modify_response, does not write
\* *resultp, leaves the response unchanged, returns NS_HOOK_CONTINUE, and the
\* lookup is not reported as disputed.
C1_FailOpen ==
    \A t \in Threads :
        (thr[t].pc = "returned" /\ LookupFailed(t)) =>
            (NoChange(t) /\ thr[t].check_result # "ISC_R_SUCCESS")

\* C2: for every domain, the evaluations within one cache TTL window issue at
\* most one request to the reputation API.
C2_OneRequestPerTtl ==
    \A D \in HookNormalized : RequestsFor(D) <= 1

\* C3: at any time at most one reputation request per domain is in flight.
C3_Coalescing ==
    \A D \in HookNormalized : Cardinality(InFlight(D)) <= 1

\* C4: when the hook has obtained a disputed verdict and the block-page IP is
\* valid (opl_modify_response succeeded), the answer section of the response
\* is the synthesized record alone: owner the query name, type A, class IN,
\* the policy TTL, rdata the four bytes of the block-page IP.
C4_AnswerReplaced ==
    \A t \in Threads :
        (/\ thr[t].pc = "returned"
         /\ thr[t].check_result = "ISC_R_SUCCESS"
         /\ thr[t].modify_result = "ISC_R_SUCCESS") =>
            thr[t].response.answer = SynthesizedAnswer(thr[t].message)

\* C5: with enabled false, the hook returns NS_HOOK_CONTINUE without calling
\* opl_check_domain and without touching the response, and opl_check_domain
\* returns before creating a request, never returns ISC_R_SUCCESS and never
\* sets *dispute_info.
C5_DisabledShortCircuits ==
    /\ (fn.op = "hook" /\ fn.cfg.enabled = 0) =>
          /\ fn.began = "none"
          /\ ~fn.requested
          /\ ~fn.modify_called
          /\ fn.resultp = "unset"
          /\ fn.response = fn.message
          /\ fn.ret = "NS_HOOK_CONTINUE"
    /\ (fn.op = "check" /\ fn.cfg.enabled = 0) =>
          /\ ~fn.requested
          /\ fn.result # "ISC_R_SUCCESS"
          /\ fn.info = NoInfo

\* a direct call of opl_check_domain with a context, a domain and enabled false
C5_Witness ==
    /\ fn.op = "check"
    /\ fn.ctx # 0
    /\ fn.domain = N_ab
    /\ fn.cfg.enabled = 0
    /\ fn.result = "ISC_R_INVALIDARG"

\* C6: two spellings of one domain (differing in letter case or in the
\* trailing dot) evaluated against the same blocklist get the same verdict.
C6_SpellingInsensitive ==
    \A t \in Threads, u \in Threads :
        (/\ thr[t].pc = "returned" /\ thr[u].pc = "returned"
         /\ thr[t].began = "perform" /\ thr[u].began = "perform"
         /\ thr[t].net.res = "CURLE_OK"
         /\ thr[t].net.body.kind = "array"
         /\ thr[u].net = thr[t].net
         /\ Normalize(thr[t].domain) = Normalize(thr[u].domain)) =>
            (thr[t].check_result = "ISC_R_SUCCESS") = (thr[u].check_result = "ISC_R_SUCCESS")

\* C7: a response with an HTTP status outside 200-299 is never reported as
\* disputed, whatever its body, and the hook leaves the answer unchanged.
C7_UpstreamStatus ==
    \A t \in Threads :
        (/\ thr[t].pc = "returned"
         /\ thr[t].began = "perform"
         /\ thr[t].net.res = "CURLE_OK"
         /\ thr[t].net.body.kind # "empty"
         /\ thr[t].net.status \notin 200..299) =>
            (thr[t].check_result # "ISC_R_SUCCESS" /\ NoChange(t))

\* C8: opl_modify_response returns an error whenever the query class is not IN
\* and whenever the block-page IP is not a strict dotted quad, and parse_ipv4
\* returns 0 exactly for the strict dotted quads.
C8_SynthesisRejectsInvalid ==
    (fn.op = "modify" /\ fn.parsed) =>
        /\ (fn.message.question # <<>> /\ fn.message.question[1].rdclass # "IN") =>
              fn.result # "ISC_R_SUCCESS"
        /\ ~StrictDottedQuad(fn.cfg.block_page_ip) => fn.result # "ISC_R_SUCCESS"
        /\ (fn.parse_rc = 0) = StrictDottedQuad(fn.cfg.block_page_ip)

\* C9 as claimed: for a fetched and parsed response, disputed exactly when
\* some entry's url string contains the domain, not-disputed otherwise; when
\* disputed the detail asked for is "<employer>: <reason>" of the first
\* matching entry; no detail when not disputed.
C9_Original ==
    Parsed =>
        /\ (fn.result = "ISC_R_SUCCESS") = (Matching(fn.net.body, fn.domain) # {})
        /\ (fn.result = "ISC_R_NOTFOUND") = (Matching(fn.net.body, fn.domain) = {})
        /\ (fn.result = "ISC_R_SUCCESS" /\ fn.want_info) =>
              fn.info = Detail(fn.net.body.items[FirstMatching(fn.net.body, fn.domain)])
        /\ fn.result # "ISC_R_SUCCESS" => fn.info = NoInfo

\* C9 as amended: the same, the detail being produced only when the caller
\* passed dispute_info and the allocation of the detail string succeeded;
\* otherwise the verdict is still disputed and no detail is produced.
C9_BlocklistVerdict ==
    Parsed =>
        /\ (fn.result = "ISC_R_SUCCESS") = (Matching(fn.net.body, fn.domain) # {})
        /\ (fn.result = "ISC_R_NOTFOUND") = (Matching(fn.net.body, fn.domain) = {})
        /\ (fn.result = "ISC_R_SUCCESS" /\ fn.want_info /\ fn.info_alloc) =>
              fn.info = Detail(fn.net.body.items[FirstMatching(fn.net.body, fn.domain)])
        /\ (fn.result # "ISC_R_SUCCESS" \/ ~fn.want_info \/ ~fn.info_alloc) =>
              fn.info = NoInfo

\* a disputed verdict whose first matching entry is not the first entry and
\* has no employer string, with another matching entry after it
C9_Witness ==
    /\ Parsed
    /\ fn.result = "ISC_R_SUCCESS"
    /\ fn.want_info /\ fn.info_alloc
    /\ Cardinality(Matching(fn.net.body, fn.domain)) > 1
    /\ FirstMatching(fn.net.body, fn.domain) > 1
    /\ fn.info = <<":", " ">> \o S_r

\* C10: plugin_ctx is NULL or a context that has not been freed, libcurl is
\* initialized while a registered instance is live, and no hook invocation
\* reads a freed context.
C10_LifecycleSafe ==
    /\ plugin_ctx = 0 \/ heap[plugin_ctx].state = "live"
    /\ (\E i \in Insts : inst[i].state = "registered") => curl_initialized = 1
    /\ \A t \in Threads : ~thr[t].uaf

====
